---- MODULE Spec2Model ----
(***************************************************************************)
(* Model of src/util.rs of ff-node-monitor: the form type EmailAddress,    *)
(* the serde helper hex_signing_key, the macro url_query! and the request  *)
(* guard EmailBuilder (email, mailer).                                     *)
(*                                                                         *)
(* Strings are sequences of bytes (Rust strings are UTF-8 byte strings and *)
(* every separator the code looks for is an ASCII byte).                   *)
(***************************************************************************)
EXTENDS Integers, Sequences, FiniteSets, TLC

VARIABLES
    pc,          \* which component is running and where it stands
    raw,         \* the form value / key string / rendered text handed in
    result,      \* what the operation returned (or how it ended)
    addresses,   \* the EmailAddress values that currently exist
    read,        \* what the last Deref of an EmailAddress gave
    config,      \* the Config the process was started with
    url,         \* the Url value url_query! works on
    senders,     \* the routable From addresses of the messages built so far
    log          \* how the mailer calls of the finished requests ended

vars == <<pc, raw, result, addresses, read, config, url, senders, log>>

---------------------------------------------------------------------------
(* Bytes the code names.                                                   *)
AT == 64
DOT == 46
NL == 10
PERCENT == 37
PLUS == 43
SPACE == 32
AMP == 38
EQUALS == 61
QUESTION == 63

(* Bounds of the model.                                                    *)
MaxRawLen == 5
MaxHexLen == 4
MaxTextLen == 6
MaxValueLen == 1
MaxPairs == 2
MaxServed == 3

StrsUpTo(A, n) == UNION {[1..k -> A] : k \in 0..n}

None == {}
Some(x) == {x}

Ok(v) == [ok |-> TRUE, val |-> v]
Err(e) == [ok |-> FALSE, err |-> e]

---------------------------------------------------------------------------
(* Generic string helpers of the standard library.                         *)

\* str::find(char): index of the first occurrence, 0 for None
find(s, c) ==
    IF \E i \in 1..Len(s) : s[i] = c
    THEN CHOOSE i \in 1..Len(s) : s[i] = c /\ \A j \in 1..(i-1) : s[j] # c
    ELSE 0

\* str::split(char).collect(): always at least one part
RECURSIVE split(_, _)
split(s, c) ==
    LET i == find(s, c)
    IN  IF i = 0 THEN <<s>>
        ELSE <<SubSeq(s, 1, i-1)>> \o split(SubSeq(s, i+1, Len(s)), c)

\* str::splitn(n, char).collect(): at most n parts, the last one the rest
RECURSIVE splitn(_, _, _)
splitn(n, s, c) ==
    LET i == find(s, c)
    IN  IF n = 0 THEN <<>>
        ELSE IF n = 1 \/ i = 0 THEN <<s>>
        ELSE <<SubSeq(s, 1, i-1)>> \o splitn(n-1, SubSeq(s, i+1, Len(s)), c)

Count(s, c) == Cardinality({i \in 1..Len(s) : s[i] = c})

IsHexDigit(c) == c \in 48..57 \/ c \in 65..70 \/ c \in 97..102
HexVal(c) == IF c \in 48..57 THEN c - 48
             ELSE IF c \in 65..70 THEN c - 55
             ELSE c - 87

---------------------------------------------------------------------------
(* RawStr::url_decode (rocket 0.4): '+' becomes ' ', %XX becomes the byte, *)
(* and the bytes must be valid UTF-8.                                      *)

replace_plus(s) == [i \in 1..Len(s) |-> IF s[i] = PLUS THEN SPACE ELSE s[i]]

RECURSIVE percent_decode(_)
percent_decode(s) ==
    IF s = <<>> THEN <<>>
    ELSE IF Head(s) = PERCENT /\ Len(s) >= 3 /\ IsHexDigit(s[2]) /\ IsHexDigit(s[3])
         THEN <<16 * HexVal(s[2]) + HexVal(s[3])>> \o percent_decode(SubSeq(s, 4, Len(s)))
         ELSE <<Head(s)>> \o percent_decode(Tail(s))

IsCont(b) == b \in 128..191

\* core::str::from_utf8's acceptance of a byte string
RECURSIVE utf8_valid(_)
utf8_valid(b) ==
    IF b = <<>> THEN TRUE
    ELSE LET h == Head(b)
             n == Len(b)
             rest(k) == utf8_valid(SubSeq(b, k+1, n))
         IN  IF h < 128 THEN rest(1)
             ELSE IF h \in 194..223 THEN n >= 2 /\ IsCont(b[2]) /\ rest(2)
             ELSE IF h \in 224..239
                  THEN /\ n >= 3 /\ IsCont(b[2]) /\ IsCont(b[3])
                       /\ (h = 224 => b[2] >= 160)
                       /\ (h = 237 => b[2] <= 159)
                       /\ rest(3)
             ELSE IF h \in 240..244
                  THEN /\ n >= 4 /\ IsCont(b[2]) /\ IsCont(b[3]) /\ IsCont(b[4])
                       /\ (h = 240 => b[2] >= 144)
                       /\ (h = 244 => b[2] <= 143)
                       /\ rest(4)
             ELSE FALSE

Utf8Error == "invalid utf-8 sequence"

url_decode(v) ==
    LET bytes == percent_decode(replace_plus(v))
    IN  IF utf8_valid(bytes) THEN Ok(bytes) ELSE Err(Utf8Error)

---------------------------------------------------------------------------
(* EmailAddress: FromFormValue and Deref.                                  *)

\* the three bail! messages; the specification calls them MalformedAddress,
\* EmptyLocalPart and MissingDomainDot
MalformedAddress == "Too many or two few @"
EmptyLocalPart == "User part is empty"
MissingDomainDot == "Domain part must contain ."

\* variant: wraps the raw form value instead of the decoded one
from_form_value_raw(v) ==
    LET d == url_decode(v)
    IN  IF ~d.ok THEN Err(d.err)
        ELSE LET email_parts == split(d.val, AT)
             IN  IF Len(email_parts) # 2 THEN Err(MalformedAddress)
                 ELSE IF email_parts[1] = <<>> THEN Err(EmptyLocalPart)
                 ELSE IF find(email_parts[2], DOT) = 0 THEN Err(MissingDomainDot)
                 ELSE Ok(v)

\* variant: looks at the domain before the user part
from_form_value_dot_first(v) ==
    LET d == url_decode(v)
    IN  IF ~d.ok THEN Err(d.err)
        ELSE LET email_parts == split(d.val, AT)
             IN  IF Len(email_parts) # 2 THEN Err(MalformedAddress)
                 ELSE IF find(email_parts[2], DOT) = 0 THEN Err(MissingDomainDot)
                 ELSE IF email_parts[1] = <<>> THEN Err(EmptyLocalPart)
                 ELSE Ok(d.val)

\* variant: only rejects a value without any '@'
from_form_value_too_few(v) ==
    LET d == url_decode(v)
    IN  IF ~d.ok THEN Err(d.err)
        ELSE LET email_parts == split(d.val, AT)
             IN  IF Len(email_parts) < 2 THEN Err(MalformedAddress)
                 ELSE IF email_parts[1] = <<>> THEN Err(EmptyLocalPart)
                 ELSE IF find(email_parts[2], DOT) = 0 THEN Err(MissingDomainDot)
                 ELSE Ok(d.val)

from_form_value(v) ==
    LET d == url_decode(v)
    IN  IF ~d.ok THEN Err(d.err)
        ELSE LET s == d.val
                 email_parts == split(s, AT)
             IN  IF Len(email_parts) # 2 THEN Err(MalformedAddress)
                 ELSE IF email_parts[1] = <<>> THEN Err(EmptyLocalPart)
                 ELSE IF find(email_parts[2], DOT) = 0 THEN Err(MissingDomainDot)
                 ELSE Ok(s)

deref(a) == a

EmailAlphabet == {120, AT, DOT, PERCENT, PLUS, 52, 48, 70}

\* "a@b", "@b.c", "a@b@c.d", "a%40b.c"
EmailExamples ==
    { <<97, 64, 98>>, <<64, 98, 46, 99>>, <<97, 64, 98, 64, 99, 46, 100>>,
      <<97, 37, 52, 48, 98, 46, 99>> }

FormValues == StrsUpTo(EmailAlphabet, MaxRawLen) \cup EmailExamples

NoConfig == [email_from |-> <<>>, smtp_host |-> "", key |-> None]

InitValidate ==
    /\ pc = "idle"
    /\ raw = None
    /\ result = None
    /\ addresses = {}
    /\ read = None
    /\ config = NoConfig
    /\ url = None
    /\ senders = {}
    /\ log = <<>>

\* a form field arrives and Rocket runs EmailAddress::from_form_value on it
FromFormValue(v) ==
    LET r == from_form_value(v)
    IN  /\ pc = "idle"
        /\ pc' = "parsed"
        /\ raw' = Some(v)
        /\ result' = Some(r)
        /\ addresses' = IF r.ok THEN addresses \cup {r.val} ELSE addresses
        /\ UNCHANGED <<read, config, url, senders, log>>

\* the handler reads the address through Deref
Deref(a) ==
    /\ pc = "parsed"
    /\ a \in addresses
    /\ read' = Some(deref(a))
    /\ UNCHANGED <<pc, raw, result, addresses, config, url, senders, log>>

\* the request ends and its values are dropped
EndRequest ==
    /\ pc = "parsed"
    /\ pc' = "idle"
    /\ raw' = None
    /\ result' = None
    /\ addresses' = {}
    /\ read' = None
    /\ UNCHANGED <<config, url, senders, log>>

NextValidate ==
    \/ pc = "idle" /\ \E v \in FormValues : FromFormValue(v)
    \/ \E a \in addresses : Deref(a)
    \/ EndRequest

SpecValidate == InitValidate /\ [][NextValidate]_vars

---------------------------------------------------------------------------
(* EmailBuilder::email: a rendered template becomes a message builder.     *)

Panic(msg) == [ok |-> FALSE, panic |-> msg]
IsPanic(r) == "panic" \in DOMAIN r
IsErr(r) == "err" \in DOMAIN r

\* the two ResponderError values responder_body can give
RenderFailure == "responder failed with status"
NoBody == "couldn't find a body"

IndexOutOfBounds == "index out of bounds"
FirstLineNotEmpty == "The first line of the email template must be empty"

\* lettre_email::EmailBuilder after from((address, name)), subject and text
Message(address, name, subject, text) ==
    [from |-> [address |-> address, name |-> name],
     subject |-> subject,
     text |-> text]

\* variant: splits at every newline, so the body ends at its first newline
email_split_all(cfg, rendered) ==
    IF ~rendered.ok THEN Err(rendered.err)
    ELSE LET email_parts == split(rendered.val, NL)
         IN  IF Len(email_parts) < 4 THEN Panic(IndexOutOfBounds)
             ELSE IF email_parts[1] # <<>> THEN Panic(FirstLineNotEmpty)
             ELSE Ok(Message(cfg.email_from, email_parts[2], email_parts[3],
                             email_parts[4]))

\* variant: the assert on the first line is missing
email_no_assert(cfg, rendered) ==
    IF ~rendered.ok THEN Err(rendered.err)
    ELSE LET email_parts == splitn(4, rendered.val, NL)
         IN  IF Len(email_parts) < 4 THEN Panic(IndexOutOfBounds)
             ELSE Ok(Message(cfg.email_from, email_parts[2], email_parts[3],
                             email_parts[4]))

\* variant: the template's second line is used as the sender address
email_from_template(cfg, rendered) ==
    IF ~rendered.ok THEN Err(rendered.err)
    ELSE LET email_parts == splitn(4, rendered.val, NL)
         IN  IF Len(email_parts) < 4 THEN Panic(IndexOutOfBounds)
             ELSE IF email_parts[1] # <<>> THEN Panic(FirstLineNotEmpty)
             ELSE Ok(Message(email_parts[2], cfg.email_from, email_parts[3],
                             email_parts[4]))

\* rendered is what responder_body returned; indexing email_parts[1..3]
\* (Rust's [0..2]) and [4] panics when splitn gave fewer than 4 parts
email(cfg, rendered) ==
    IF ~rendered.ok THEN Err(rendered.err)
    ELSE LET email_text == rendered.val
             email_parts == splitn(4, email_text, NL)
         IN  IF Len(email_parts) < 4 THEN Panic(IndexOutOfBounds)
             ELSE IF email_parts[1] # <<>> THEN Panic(FirstLineNotEmpty)
             ELSE Ok(Message(cfg.email_from, email_parts[2], email_parts[3],
                             email_parts[4]))

TextAlphabet == {NL, 65, 66}

\* "\nAlice\nHello\nBody line 1\nBody line 2"
TextExample ==
    <<10, 65, 108, 105, 99, 101, 10, 72, 101, 108, 108, 111, 10, 66, 111,
      100, 121, 32, 108, 105, 110, 101, 32, 49, 10, 66, 111, 100, 121, 32,
      108, 105, 110, 101, 32, 50>>
\* "\nAlice\nHello"
TextTooShort == <<10, 65, 108, 105, 99, 101, 10, 72, 101, 108, 108, 111>>
\* "NotEmpty\nAlice\nHello\nBody"
TextNotEmpty ==
    <<78, 111, 116, 69, 109, 112, 116, 121, 10, 65, 108, 105, 99, 101, 10,
      72, 101, 108, 108, 111, 10, 66, 111, 100, 121>>

RenderedTexts ==
    StrsUpTo(TextAlphabet, MaxTextLen) \cup {TextExample, TextTooShort, TextNotEmpty}

Rendered == {Err(RenderFailure), Err(NoBody)} \cup {Ok(t) : t \in RenderedTexts}

\* "n@x", "m@y"
SenderAddresses == {<<110, 64, 120>>, <<109, 64, 121>>}

InitCompose ==
    /\ pc = "idle"
    /\ raw = None
    /\ result = None
    /\ addresses = {}
    /\ read = None
    /\ config \in {[NoConfig EXCEPT !.email_from = a] : a \in SenderAddresses}
    /\ url = None
    /\ senders = {}
    /\ log = <<>>

\* a handler calls EmailBuilder::email with a template
Email(rendered) ==
    LET r == email(config, rendered)
    IN  /\ pc = "idle"
        /\ pc' = "composed"
        /\ raw' = Some(rendered)
        /\ result' = Some(r)
        /\ senders' = IF r.ok THEN senders \cup {r.val.from.address} ELSE senders
        /\ UNCHANGED <<addresses, read, config, url, log>>

\* the request is over: the handler returned, or Rocket caught its panic
EndCompose ==
    /\ pc = "composed"
    /\ pc' = "idle"
    /\ raw' = None
    /\ result' = None
    /\ UNCHANGED <<addresses, read, config, url, senders, log>>

NextCompose ==
    \/ pc = "idle" /\ \E rendered \in Rendered : Email(rendered)
    \/ EndCompose

SpecCompose == InitCompose /\ [][NextCompose]_vars

---------------------------------------------------------------------------
(* Properties of EmailBuilder::email.                                      *)

HasNewline(s) == \E i \in 1..Len(s) : s[i] = NL

\* C4: a text with at least three newlines and an empty first line is split
\* at its first three newlines only: the display name and the subject hold
\* no newline and "\n" name "\n" subject "\n" body is the text again.
C4_SplitAtFirstThreeNewlines ==
    /\ \A rendered \in raw :
          ( /\ pc = "composed"
            /\ rendered.ok
            /\ Count(rendered.val, NL) >= 3
            /\ rendered.val[1] = NL )
          => \E r \in result :
                /\ r.ok
                /\ ~HasNewline(r.val.from.name)
                /\ ~HasNewline(r.val.subject)
                /\ <<NL>> \o r.val.from.name \o <<NL>> \o r.val.subject
                       \o <<NL>> \o r.val.text = rendered.val
    /\ (pc = "composed" /\ raw = {Ok(TextExample)})
          => \E r \in result :
                /\ r.ok
                /\ r.val.from.name = <<65, 108, 105, 99, 101>>
                /\ r.val.subject = <<72, 101, 108, 108, 111>>
                /\ r.val.text = <<66, 111, 100, 121, 32, 108, 105, 110, 101,
                                  32, 49, 10, 66, 111, 100, 121, 32, 108, 105,
                                  110, 101, 32, 50>>

\* a message was built from a text with more than three newlines
C4_Witness ==
    /\ pc = "composed"
    /\ \E rendered \in raw :
          rendered.ok /\ Count(rendered.val, NL) > 3 /\ rendered.val[1] = NL
    /\ \E r \in result : r.ok /\ HasNewline(r.val.text)

MissingField == "MissingField"

\* C5: a text with fewer than three newlines makes email return the error
\* MissingField and no message.
C5_MissingFieldError ==
    \A rendered \in raw :
        (pc = "composed" /\ rendered.ok /\ Count(rendered.val, NL) < 3)
            => result = Some(Err(MissingField))

\* C6: a text whose first piece is not empty ends email in a panic: neither
\* a message nor an error value is returned.
C6_NonEmptyPreambleIsFatal ==
    \A rendered \in raw :
        ( /\ pc = "composed"
          /\ rendered.ok
          /\ rendered.val # <<>>
          /\ rendered.val[1] # NL )
        => /\ result # {}
           /\ \A r \in result : IsPanic(r) /\ ~r.ok /\ ~IsErr(r)

\* four parts with a non-empty first one: the assert fires
C6_Witness ==
    /\ pc = "composed"
    /\ \E rendered \in raw :
          rendered.ok /\ Count(rendered.val, NL) >= 3 /\ rendered.val[1] # NL
    /\ result = Some(Panic(FirstLineNotEmpty))

\* C7: the routable From address of every message email builds is
\* config.ui.email_from; the text only gives the name, subject and body, so
\* all messages built under one configuration carry the same From address.
C7_FromAddressIsConfigured ==
    /\ \A r \in result :
          (pc = "composed" /\ r.ok) => r.val.from.address = config.email_from
    /\ senders \subseteq {config.email_from}

\* a message was built whose text names another address-like display name
C7_Witness ==
    /\ pc = "composed"
    /\ \E r \in result :
          r.ok /\ r.val.from.name # <<>> /\ r.val.from.name # config.email_from
    /\ senders # {}

---------------------------------------------------------------------------
(* hex_signing_key::deserialize: the signing key of the configuration.     *)

\* the two ways hex::decode fails (hex::FromHexError)
OddLength == "Odd number of digits"
InvalidHexCharacter == "Invalid character"
InvalidHexEncoding == {OddLength, InvalidHexCharacter}
InvalidType == "invalid type: expected a string"

RECURSIVE hex_pairs(_)
hex_pairs(s) ==
    IF s = <<>> THEN Ok(<<>>)
    ELSE IF ~IsHexDigit(s[1]) \/ ~IsHexDigit(s[2]) THEN Err(InvalidHexCharacter)
    ELSE LET r == hex_pairs(SubSeq(s, 3, Len(s)))
         IN  IF r.ok THEN Ok(<<16 * HexVal(s[1]) + HexVal(s[2])>> \o r.val)
             ELSE r

\* variant: a trailing single digit is dropped instead of refused
hex_decode_truncating(s) ==
    hex_pairs(SubSeq(s, 1, 2 * (Len(s) \div 2)))

\* hex::decode
hex_decode(s) ==
    IF Len(s) % 2 # 0 THEN Err(OddLength) ELSE hex_pairs(s)

\* ring::hmac::SigningKey::new(&digest::SHA256, bytes)
SigningKey(bytes) == [algorithm |-> "SHA256", key_value |-> bytes]

\* input is what String::deserialize gave: the string or serde's error
deserialize(input) ==
    IF ~input.ok THEN Err(input.err)
    ELSE LET bytes == hex_decode(input.val)
         IN  IF ~bytes.ok THEN Err(bytes.err)
             ELSE Ok(SigningKey(bytes.val))

\* '0', 'a', 'F' and the non-digit 'g'
HexAlphabet == {48, 97, 70, 103}

KeyInputs == {Err(InvalidType)} \cup {Ok(h) : h \in StrsUpTo(HexAlphabet, MaxHexLen)}

InitKey ==
    /\ pc = "start"
    /\ raw = None
    /\ result = None
    /\ addresses = {}
    /\ read = None
    /\ config = NoConfig
    /\ url = None
    /\ senders = {}
    /\ log = <<>>

\* serde deserializes the configuration's key field with this module; an
\* error makes the deserialization of the configuration fail
LoadConfig(input) ==
    LET r == deserialize(input)
    IN  /\ pc = "start"
        /\ raw' = Some(input)
        /\ result' = Some(r)
        /\ pc' = IF r.ok THEN "loaded" ELSE "load_failed"
        /\ config' = IF r.ok THEN [config EXCEPT !.key = Some(r.val)] ELSE config
        /\ UNCHANGED <<addresses, read, url, senders, log>>

NextKey == pc = "start" /\ \E input \in KeyInputs : LoadConfig(input)

SpecKey == InitKey /\ [][NextKey]_vars

WellFormedHex(s) ==
    /\ \E n \in 0..Len(s) : Len(s) = 2 * n
    /\ \A i \in 1..Len(s) : s[i] \in (48..57) \cup (65..70) \cup (97..102)

\* C9: deserialize gives a SigningKey exactly when the string is well-formed
\* hex (even length, hex digits only), whatever the number of bytes; otherwise
\* it fails with a hex decoding error, no key exists and the configuration is
\* not loaded.
C9_KeyIffWellFormedHex ==
    \A input \in raw :
        (pc # "start" /\ input.ok) =>
            \E r \in result :
                /\ r.ok <=> WellFormedHex(input.val)
                /\ r.ok => /\ 2 * Len(r.val.key_value) = Len(input.val)
                           /\ config.key = Some(r.val)
                           /\ pc = "loaded"
                /\ ~r.ok => /\ IsErr(r)
                            /\ r.err \in InvalidHexEncoding
                            /\ config.key = None
                            /\ pc = "load_failed"

\* an odd-length string of hex digits was refused
C9_Witness ==
    /\ pc = "load_failed"
    /\ \E input \in raw :
          /\ input.ok
          /\ Len(input.val) % 2 = 1
          /\ \A i \in 1..Len(input.val) : IsHexDigit(input.val[i])
    /\ result = Some(Err(OddLength))
    /\ config.key = None

---------------------------------------------------------------------------
(* url_query!: query pairs appended to a Url.                              *)

Url(base, query, fragment) == [base |-> base, query |-> query, fragment |-> fragment]

\* Url::as_str
serialization(u) ==
    u.base
    \o (IF u.query = None THEN <<>>
        ELSE <<QUESTION>> \o (CHOOSE q \in u.query : TRUE))
    \o (IF u.fragment = None THEN <<>>
        ELSE <<35>> \o (CHOOSE f \in u.fragment : TRUE))

HexChar(n) == IF n < 10 THEN 48 + n ELSE 55 + n

\* form_urlencoded::byte_serialize
encode_byte(b) ==
    IF \/ b \in {42, 45, 46, 95}
       \/ b \in 48..57 \/ b \in 65..90 \/ b \in 97..122
    THEN <<b>>
    ELSE IF b = SPACE THEN <<PLUS>>
    ELSE <<PERCENT, HexChar(b \div 16), HexChar(b % 16)>>

RECURSIVE byte_serialize(_)
byte_serialize(s) ==
    IF s = <<>> THEN <<>> ELSE encode_byte(Head(s)) \o byte_serialize(Tail(s))

\* variant: name and value are written as they are
append_pair_unencoded(q, name, value) ==
    (IF Len(q) > 0 THEN q \o <<AMP>> ELSE q) \o name \o <<EQUALS>> \o value

\* form_urlencoded::Serializer::append_pair on the query string q
append_pair(q, name, value) ==
    (IF Len(q) > 0 THEN q \o <<AMP>> ELSE q)
        \o byte_serialize(name) \o <<EQUALS>> \o byte_serialize(value)

RECURSIVE append_pairs(_, _)
append_pairs(q, params) ==
    IF params = <<>> THEN q
    ELSE append_pairs(append_pair(q, Head(params)[1], Head(params)[2]), Tail(params))

\* Url::query_pairs_mut: the query the serializer appends to
query_pairs_mut(u) ==
    IF u.query = None THEN <<>> ELSE CHOOSE q \in u.query : TRUE

\* variant: the pairs are appended last to first
url_query_reversed(u, params) ==
    LET rev == [i \in 1..Len(params) |-> params[Len(params) + 1 - i]]
    IN  [u EXCEPT !.query = Some(append_pairs(query_pairs_mut(u), rev))]

url_query(u, params) ==
    [u EXCEPT !.query = Some(append_pairs(query_pairs_mut(u), params))]

\* "https://x/y"
BaseExample == <<104, 116, 116, 112, 115, 58, 47, 47, 120, 47, 121>>
\* token = "abc", sig = "def"
ParamsExample ==
    << <<<<116, 111, 107, 101, 110>>, <<97, 98, 99>>>>,
       <<<<115, 105, 103>>, <<100, 101, 102>>>> >>
\* "https://x/y?token=abc&sig=def"
LinkExample ==
    <<104, 116, 116, 112, 115, 58, 47, 47, 120, 47, 121, 63, 116, 111, 107,
      101, 110, 61, 97, 98, 99, 38, 115, 105, 103, 61, 100, 101, 102>>

\* no query, an empty query, the query "k=v"; with and without fragment "f"
Urls ==
    {Url(BaseExample, q, f) : q \in {None, Some(<<>>), Some(<<107, 61, 118>>)},
                              f \in {None, Some(<<102>>)}}

\* the identifiers t and s; values over 'a', '&', '=' and ' '
ParamNames == {<<116>>, <<115>>}
ParamValues == StrsUpTo({97, AMP, EQUALS, SPACE}, MaxValueLen)
ParamLists ==
    StrsUpTo(ParamNames \X ParamValues, MaxPairs) \cup {ParamsExample}

InitUrl ==
    /\ pc = "idle"
    /\ raw = None
    /\ result = None
    /\ addresses = {}
    /\ read = None
    /\ config = NoConfig
    /\ url = None
    /\ senders = {}
    /\ log = <<>>

\* a caller expands url_query!(u, name = value, ...)
UrlQuery(u, params) ==
    /\ pc = "idle"
    /\ pc' = "built"
    /\ url' = Some(u)
    /\ raw' = Some(params)
    /\ result' = Some(url_query(u, params))
    /\ UNCHANGED <<addresses, read, config, senders, log>>

\* the caller is done with the link
EndUrl ==
    /\ pc = "built"
    /\ pc' = "idle"
    /\ url' = None
    /\ raw' = None
    /\ result' = None
    /\ UNCHANGED <<addresses, read, config, senders, log>>

NextUrl ==
    \/ pc = "idle" /\ \E u \in Urls, params \in ParamLists : UrlQuery(u, params)
    \/ EndUrl

SpecUrl == InitUrl /\ [][NextUrl]_vars

\* how the receiving side reads a query string (form_urlencoded::parse):
\* pieces between '&', each cut at its first '=', both halves decoded
form_decode(x) == percent_decode(replace_plus(x))

parse_pairs(q) ==
    LET segs == SelectSeq(split(q, AMP), LAMBDA x : x # <<>>)
    IN  [i \in 1..Len(segs) |->
            LET e == find(segs[i], EQUALS)
            IN  IF e = 0 THEN <<form_decode(segs[i]), <<>>>>
                ELSE <<form_decode(SubSeq(segs[i], 1, e-1)),
                       form_decode(SubSeq(segs[i], e+1, Len(segs[i])))>>]

IsPrefix(a, b) == Len(a) <= Len(b) /\ SubSeq(b, 1, Len(a)) = a

\* C8: url_query! keeps the base URL and the query it already has and adds
\* one query pair per parameter after it, in the order given: read back, the
\* query is the old pairs followed by the parameters.
C8_PairsAppendedInOrder ==
    /\ \A u \in url : \A params \in raw : \A r \in result :
          pc = "built" =>
            /\ r.base = u.base
            /\ r.fragment = u.fragment
            /\ r.query # None
            /\ IsPrefix(query_pairs_mut(u), query_pairs_mut(r))
            /\ parse_pairs(query_pairs_mut(r))
                  = parse_pairs(query_pairs_mut(u)) \o params
    /\ (pc = "built" /\ url = {Url(BaseExample, None, None)} /\ raw = {ParamsExample})
          => \E r \in result : serialization(r) = LinkExample

\* two parameters, one with a value that needs encoding, were added to a
\* URL that already had a query
C8_Witness ==
    /\ pc = "built"
    /\ \E u \in url : u.query # None /\ u.query # Some(<<>>)
    /\ \E params \in raw :
          /\ Len(params) = 2
          /\ params[1][1] # params[2][1]
          /\ \E i \in 1..Len(params[1][2]) : params[1][2][i] = AMP
    /\ result # {}

---------------------------------------------------------------------------
(* EmailBuilder::mailer: the SMTP transport of a request.                  *)

SMTP_PORT == 25

ResolutionError == "could not resolve hostname"

\* SmtpClient and SmtpTransport hold what new() was given
Transport(host, port, security) ==
    [host |-> host, port |-> port, security |-> security]

\* variant: tries once more when the first attempt failed
mailer_retry(cfg, answers) ==
    LET host == cfg.smtp_host
    IN  IF answers[1] \/ answers[2]
        THEN Ok(Transport(host, SMTP_PORT, "ClientSecurity::None"))
        ELSE Err(ResolutionError)

\* answers[i] tells whether the i-th attempt to reach the host would
\* succeed; SmtpClient::new is called once
mailer(cfg, answers) ==
    LET host == cfg.smtp_host
    IN  IF answers[1]
        THEN Ok(Transport(host, SMTP_PORT, "ClientSecurity::None"))
        ELSE Err(ResolutionError)

SmtpHosts == {"localhost", "mail.example.org", "smtp.invalid"}
Answers == [1..2 -> BOOLEAN]

InitMailer ==
    /\ pc = "idle"
    /\ raw = None
    /\ result = None
    /\ addresses = {}
    /\ read = None
    /\ config \in {[NoConfig EXCEPT !.smtp_host = h] : h \in SmtpHosts}
    /\ url = None
    /\ senders = {}
    /\ log = <<>>

\* a handler calls EmailBuilder::mailer
Mailer(answers) ==
    /\ pc = "idle"
    /\ Len(log) < MaxServed
    /\ pc' = "called"
    /\ raw' = Some(answers)
    /\ result' = Some(mailer(config, answers))
    /\ UNCHANGED <<addresses, read, config, url, senders, log>>

\* the request ends; the transport, if any, is dropped with it
EndMailer ==
    /\ pc = "called"
    /\ pc' = "idle"
    /\ log' = log \o [i \in 1..1 |-> (CHOOSE r \in result : TRUE).ok]
    /\ raw' = None
    /\ result' = None
    /\ UNCHANGED <<addresses, read, config, url, senders>>

NextMailer ==
    \/ \E answers \in Answers : Mailer(answers)
    \/ EndMailer

SpecMailer == InitMailer /\ [][NextMailer]_vars

\* C10: mailer targets the configured host on SMTP_PORT without transport
\* security; when the host cannot be reached the caller gets an error value
\* (no panic, no second attempt), and the next request can call mailer again.
C10_TransportOrError ==
    /\ \A answers \in raw : \A r \in result :
          pc = "called" =>
            /\ r.ok <=> answers[1]
            /\ r.ok => r.val = Transport(config.smtp_host, SMTP_PORT,
                                         "ClientSecurity::None")
            /\ ~r.ok => IsErr(r) /\ ~IsPanic(r)
    /\ (pc = "idle" /\ Len(log) < MaxServed)
          => ENABLED Mailer([i \in 1..2 |-> TRUE])

\* a request got a transport after an earlier request's failure
C10_Witness ==
    /\ pc = "called"
    /\ Len(log) > 0
    /\ ~log[Len(log)]
    /\ \E r \in result : r.ok /\ r.val.host = config.smtp_host

---------------------------------------------------------------------------
(* Properties of EmailAddress.                                             *)

\* exactly one '@', something before it, a '.' somewhere after it
AddressShape(s) ==
    /\ Count(s, AT) = 1
    /\ \E i \in 2..Len(s) :
          /\ s[i] = AT
          /\ \E j \in (i+1)..Len(s) : s[j] = DOT

\* C1 (as stated): a form value whose percent-decoded form has exactly one
\* '@', a non-empty part before it and a '.' after it is accepted, and the
\* EmailAddress wraps the percent-decoded form.
C1_PercentDecodedOnly ==
    \A v \in raw :
        ( /\ pc = "parsed"
          /\ utf8_valid(percent_decode(v))
          /\ AddressShape(percent_decode(v)) )
        => result = Some(Ok(percent_decode(v)))

\* C1: a form value whose URL-decoded form ('+' read as a space, then
\* percent-decoding) has exactly one '@', a non-empty part before it and a
\* '.' after it is accepted, and the EmailAddress wraps that decoded form
\* itself, byte for byte.
C1_ValidAddressAccepted ==
    \A v \in raw :
        (pc = "parsed" /\ url_decode(v).ok /\ AddressShape(url_decode(v).val))
            => /\ result = Some(Ok(url_decode(v).val))
               /\ addresses = {url_decode(v).val}

\* an accepted value whose decoding changed it ("x%40." gives "x@.")
C1_Witness ==
    /\ pc = "parsed"
    /\ \E v \in raw :
          /\ url_decode(v).ok
          /\ url_decode(v).val # v
          /\ AddressShape(url_decode(v).val)
          /\ find(v, AT) = 0
    /\ \E r \in result : r.ok

\* the error the three rules give, in their order, for a decoded string
FirstViolation(s) ==
    IF Count(s, AT) # 1 THEN MalformedAddress
    ELSE IF s[1] = AT THEN EmptyLocalPart
    ELSE MissingDomainDot

\* C2: a decodable form value that breaks a rule is rejected with the error
\* of the first rule it breaks (number of '@', then empty user part, then
\* missing '.' in the domain), and no EmailAddress comes to exist.
C2_FirstViolatedRule ==
    /\ \A v \in raw :
          (pc = "parsed" /\ url_decode(v).ok /\ ~AddressShape(url_decode(v).val))
              => /\ result = Some(Err(FirstViolation(url_decode(v).val)))
                 /\ addresses = {}
    /\ raw = {<<97, 64, 98>>} => result = Some(Err(MissingDomainDot))
    /\ raw = {<<64, 98, 46, 99>>} => result = Some(Err(EmptyLocalPart))
    /\ raw = {<<97, 64, 98, 64, 99, 46, 100>>} => result = Some(Err(MalformedAddress))

\* one '@', nothing before it and no '.' after it: rejected for the user part
C2_Witness ==
    /\ pc = "parsed"
    /\ \E v \in raw :
          /\ url_decode(v).ok
          /\ Count(url_decode(v).val, AT) = 1
          /\ url_decode(v).val[1] = AT
          /\ Count(url_decode(v).val, DOT) = 0
    /\ result = Some(Err(EmptyLocalPart))

====
